---- MODULE Spec2Model ----
(***************************************************************************)
(* Model of bot/cogs/moderation/incidents.py: the Incidents cog.           *)
(*                                                                         *)
(* The platform holds the messages and their reactions.  The cog never     *)
(* sees the platform directly: it sees message objects, which carry the    *)
(* reaction list the platform had when the object was built (the history   *)
(* response for the crawl, the new-message event for on_message).          *)
(* Code between two awaits runs without interleaving (one asyncio loop),   *)
(* so every action below is one such stretch of a coroutine, or one step   *)
(* of the environment (a message is posted, the guild becomes available,   *)
(* a request is answered).                                                 *)
(***************************************************************************)
EXTENDS Integers, Sequences, FiniteSets, TLC

(***************************************************************************)
(* Bounds of the model.                                                    *)
(***************************************************************************)
\* messages already in #incidents when the cog is constructed
MaxOld == 2
\* new-message events delivered while the cog lives
MaxNew == 1
\* incidents.history(limit=limit): 50 in the source, scaled down here so
\* that the channel can hold more messages than the crawl asks for
limit == 2

\* asyncio.sleep(sleep): seconds slept after each processed message
sleep == 2

(***************************************************************************)
(* Configuration (bot.constants): opaque identifiers.                      *)
(***************************************************************************)
Channels_incidents == "incidents"
OtherChannel == "general"

\* class Signal(Enum), in enumeration order; the values are the emoji
Signal == <<"incident_actioned", "incident_unactioned", "incident_investigating">>
OtherEmoji == "thumbsup"
Emoji == {Signal[k] : k \in 1..Len(Signal)} \cup {OtherEmoji}

ALLOWED_EMOJI == {Signal[k] : k \in 1..Len(Signal)}

(***************************************************************************)
(* Pure helpers.                                                           *)
(***************************************************************************)
\* str.startswith(prefix) for a one-character prefix; content is a
\* sequence of characters
startswith(content, ch) == Len(content) >= 1 /\ content[1] = ch

\* seeded fault: any() where the source has all()
is_incident_any(message) ==
    \/ message.channel = Channels_incidents
    \/ ~ message.author_bot
    \/ ~ startswith(message.content, "#")
    \/ ~ message.pinned

is_incident(message) ==
    LET conditions == << message.channel = Channels_incidents,
                         ~ message.author_bot,
                         ~ startswith(message.content, "#"),
                         ~ message.pinned >>
    IN  \A k \in 1..Len(conditions) : conditions[k]

\* seeded fault: the "if reaction.me" filter is lost
own_reactions_all(message) == {reaction.emoji : reaction \in message.reactions}

own_reactions(message) ==
    {reaction.emoji : reaction \in {r \in message.reactions : r.me}}

\* seeded fault: one signal of the bot's is taken for all of them
has_signals_any(message) == ALLOWED_EMOJI \cap own_reactions(message) # {}

has_signals(message) ==
    LET missing_signals == ALLOWED_EMOJI \ own_reactions(message)
    IN  missing_signals = {}

\* seeded fault: the loop walks Signal from its last member
add_signals_next_last(existing_reacts, i) ==
    LET todo == {j \in (i+1)..Len(Signal) : Signal[j] \notin existing_reacts}
    IN  IF todo = {} THEN 0
        ELSE CHOOSE j \in todo : \A k \in todo : j >= k

\* seeded fault: the "already been placed" test is lost
add_signals_next_no_skip(existing_reacts, i) ==
    IF i < Len(Signal) THEN i + 1 ELSE 0

\* add_signals' for-loop, run from just after position i up to its next
\* await: the position of the next Signal member whose emoji is not in
\* existing_reacts, 0 when the loop runs off the end
add_signals_next(existing_reacts, i) ==
    LET todo == {j \in (i+1)..Len(Signal) : Signal[j] \notin existing_reacts}
    IN  IF todo = {} THEN 0
        ELSE CHOOSE j \in todo : \A k \in todo : j <= k

\* seeded fault: the has_signals skip is lost
crawl_skips_not_incident_only(message) == ~ is_incident(message)

\* crawl_incidents' two skips: "not an incident", "already has all signals"
crawl_skips(message) == ~ is_incident(message) \/ has_signals(message)

\* seeded fault: the listener passes every message on
on_message_passes_all(message) == TRUE

\* on_message's test
on_message_passes(message) == is_incident(message)

(***************************************************************************)
(* State.                                                                  *)
(***************************************************************************)
VARIABLES
    plat,            \* the platform: message id -> the message and its reactions
    guild_available, \* what bot.wait_until_guild_available() waits for
    event_lock,      \* self.event_lock: TRUE while held
    crawl_pc,        \* where self.crawl_task stands
    crawl_history,   \* message objects the history stream has yet to yield
    crawl_message,   \* id of the message the crawl is adding signals to, or 0
    crawl_existing,  \* add_signals' existing_reacts, in the crawl's call
    crawl_i,         \* add_signals' loop position (into Signal), in the crawl's call
    handler,         \* message id -> the on_message invocation for that message
    inflight,        \* add-reaction requests issued and not yet answered
    fetched,         \* the history response: message objects, in the order delivered
    examined,        \* ids the crawl loop has taken from the stream, in order
    crawl_starts,    \* how many times crawl_incidents began to run
    crawl_log,       \* per message: what the crawl did to it
    handler_log      \* per message: what its on_message invocation did

cogVars == << plat, guild_available, event_lock, crawl_pc, crawl_history,
              crawl_message, crawl_existing, crawl_i, handler, inflight,
              fetched, examined, crawl_starts, crawl_log, handler_log >>

\* A caller that awaits add_signals(message) twice in a row on one message
\* object (TwiceSpec).
VARIABLES
    t_message,       \* the message object both calls are given
    t_bot,           \* the platform: emoji the bot has placed on that message
    t_pc,            \* where the caller stands
    t_call,          \* which call is running or was last run (0: none yet)
    t_existing,      \* add_signals' existing_reacts, in the running call
    t_i,             \* add_signals' loop position, in the running call
    t_issued,        \* per call: the emoji of the requests it issued, in order
    t_seen           \* per call: own_reactions(message) as the call began

twiceVars == << t_message, t_bot, t_pc, t_call, t_existing, t_i, t_issued, t_seen >>

\* One evaluation of the pure helpers on one message (PureSpec).
VARIABLES
    p_message,       \* the message object
    p_pc,            \* "input" until the helpers were evaluated, then "done"
    p_is_incident,   \* is_incident(p_message)
    p_own_reactions, \* own_reactions(p_message)
    p_has_signals    \* has_signals(p_message)

pureVars == << p_message, p_pc, p_is_incident, p_own_reactions, p_has_signals >>

\* One call of Incidents.resolve_message (ResolveSpec).
VARIABLES
    r_pc,            \* where the call stands
    r_id,            \* its argument message_id
    r_cache,         \* ids of the messages in the host runtime's local cache
    r_result,        \* what the call returned
    r_log            \* what the call did: cache lookups, fetches, the fetch's outcome

resolveVars == << r_pc, r_id, r_cache, r_result, r_log >>

unitVars == << twiceVars, pureVars, resolveVars >>

vars == << cogVars, twiceVars, pureVars, resolveVars >>

MsgIds == 1..(MaxOld + MaxNew)

\* the attributes is_incident reads
Report == [channel |-> Channels_incidents, author_bot |-> FALSE,
           content |-> <<"o", "u", "t">>, pinned |-> FALSE]

\* what a new message can look like: it is not pinned, it may be anywhere
NewKinds == { Report,
              [Report EXCEPT !.channel = OtherChannel],
              [Report EXCEPT !.content = <<"#", "o">>],
              [Report EXCEPT !.author_bot = TRUE] }

\* a message of #incidents at start-up: what is_incident reads of it, and
\* its reactions: bot = emoji the bot placed (an earlier session), users =
\* emoji other users placed
Old(kind, bot, users) ==
    [channel |-> kind.channel, author_bot |-> kind.author_bot,
     content |-> kind.content, pinned |-> kind.pinned, bot |-> bot, users |-> users]

OldMessages ==
    { Old(Report, {}, {}),
      Old(Report, ALLOWED_EMOJI, {OtherEmoji}),
      Old(Report, {Signal[1], Signal[3]}, {Signal[2]}),
      Old([Report EXCEPT !.pinned = TRUE], {Signal[1]}, {}) }

\* discord.Message as the cog sees it: built from the platform's data at
\* one moment; reactions is the list of discord.Reaction (emoji, me)
MessageObject(id, p) ==
    [id |-> id, channel |-> p.channel, author_bot |-> p.author_bot,
     content |-> p.content, pinned |-> p.pinned,
     reactions |-> {[emoji |-> e, me |-> e \in p.bot] : e \in p.bot \cup p.users}]

NoMessage == [id |-> 0, channel |-> OtherChannel, author_bot |-> FALSE,
              content |-> << >>, pinned |-> FALSE, reactions |-> {}]

NoHandler == [pc |-> "none", message |-> NoMessage, existing |-> {}, i |-> 0]

\* seeded fault: the limit is not passed on
history_unlimited(p, id, n) ==
    LET ids == {k \in 1..id : p[k].channel = Channels_incidents}
        RECURSIVE down(_)
        down(k) == IF k = 0 THEN << >>
                   ELSE IF k \in ids THEN << MessageObject(k, p[k]) >> \o down(k - 1)
                   ELSE down(k - 1)
    IN  down(id)

\* incidents.history(limit=n): the n most recent messages of #incidents,
\* newest first (ids grow with time)
RECURSIVE history(_, _, _)
history(p, id, n) ==
    IF id = 0 \/ n = 0 THEN << >>
    ELSE IF p[id].channel = Channels_incidents
         THEN << MessageObject(id, p[id]) >> \o history(p, id - 1, n - 1)
         ELSE history(p, id - 1, n)

\* seeded fault: the request replaces the bot's reactions by the one emoji
add_reaction_replaces(p, id, emoji) == [p EXCEPT ![id].bot = {emoji}]

\* Message.add_reaction(emoji), as the platform applies it: adding a
\* reaction the bot already placed changes nothing
add_reaction(p, id, emoji) == [p EXCEPT ![id].bot = @ \cup {emoji}]

Request(by, id, k) == [by |-> by, msg |-> id, emoji |-> Signal[k]]

\* failed: the emoji of the requests that were answered with an error
NoCrawlLog   == [calls |-> 0, existing |-> {}, issued |-> << >>, delay |-> 0,
                 failed |-> << >>]
NoHandlerLog == [calls |-> 0, issued |-> << >>, failed |-> << >>]

\* the cog right after __init__: the lock made, the crawl task scheduled
CogInit ==
    /\ guild_available = FALSE
    /\ event_lock = FALSE
    /\ crawl_pc = "scheduled"
    /\ crawl_history = << >>
    /\ crawl_message = 0
    /\ crawl_existing = {}
    /\ crawl_i = 0
    /\ handler = [m \in MsgIds |-> NoHandler]
    /\ inflight = {}
    /\ fetched = << >>
    /\ examined = << >>
    /\ crawl_starts = 0
    /\ crawl_log = [m \in MsgIds |-> NoCrawlLog]
    /\ handler_log = [m \in MsgIds |-> NoHandlerLog]

TwiceOff ==
    /\ t_message = NoMessage
    /\ t_bot = {}
    /\ t_pc = "off"
    /\ t_call = 0
    /\ t_existing = {}
    /\ t_i = 0
    /\ t_issued = << << >>, << >> >>
    /\ t_seen = << {}, {} >>

PureOff ==
    /\ p_message = NoMessage
    /\ p_pc = "off"
    /\ p_is_incident = FALSE
    /\ p_own_reactions = {}
    /\ p_has_signals = FALSE

\* t.Optional[discord.Message]: None, or the message of that id
None == [some |-> FALSE, id |-> 0]
Some(id) == [some |-> TRUE, id |-> id]

NoResolveLog == [lookups |-> 0, fetches |-> 0, outcome |-> "none"]

ResolveOff ==
    /\ r_pc = "off"
    /\ r_id = 0
    /\ r_cache = {}
    /\ r_result = None
    /\ r_log = NoResolveLog

Init ==
    /\ \E n \in 0..MaxOld : plat \in [1..n -> OldMessages]
    /\ CogInit
    /\ TwiceOff
    /\ PureOff
    /\ ResolveOff

(***************************************************************************)
(* The environment.                                                        *)
(***************************************************************************)
crawlVars == << crawl_pc, crawl_history, crawl_message, crawl_existing, crawl_i,
                fetched, examined, crawl_starts, crawl_log >>

\* the host runtime reports the guild available
GuildAvailable ==
    /\ ~ guild_available
    /\ guild_available' = TRUE
    /\ UNCHANGED << plat, event_lock, crawlVars, handler, inflight, handler_log >>
    /\ UNCHANGED unitVars

\* a user posts a message; the gateway dispatches on_message for it with
\* the message as created (no reactions yet)
PostMessage ==
    /\ Len(plat) < MaxOld + MaxNew
    /\ Cardinality({m \in MsgIds : handler[m].pc # "none"}) < MaxNew
    /\ \E k \in NewKinds :
         LET id == Len(plat) + 1
             p  == [channel |-> k.channel, author_bot |-> k.author_bot,
                    content |-> k.content, pinned |-> k.pinned,
                    bot |-> {}, users |-> {}]
         IN  /\ plat' = Append(plat, p)
             /\ handler' = [handler EXCEPT ![id] =
                              [pc |-> "dispatched", message |-> MessageObject(id, p),
                               existing |-> {}, i |-> 0]]
    /\ UNCHANGED << guild_available, event_lock, crawlVars, inflight, handler_log >>
    /\ UNCHANGED unitVars

(***************************************************************************)
(* Incidents.crawl_incidents, the task __init__ schedules.                 *)
(***************************************************************************)
\* the loop runs the task for the first time: up to the first await
crawl_begin ==
    /\ crawl_pc = "scheduled"
    /\ crawl_pc' = "wait_guild"
    /\ crawl_starts' = crawl_starts + 1
    /\ UNCHANGED << plat, guild_available, event_lock, crawl_history, crawl_message,
                    crawl_existing, crawl_i, handler, inflight, fetched, examined,
                    crawl_log, handler_log >>
    /\ UNCHANGED unitVars

\* seeded fault: the history is asked for without waiting for the guild
crawl_guild_ready_no_wait ==
    /\ crawl_pc = "wait_guild"
    /\ crawl_pc' = "fetching"
    /\ UNCHANGED << plat, guild_available, event_lock, crawl_history, crawl_message,
                    crawl_existing, crawl_i, handler, inflight, fetched, examined,
                    crawl_starts, crawl_log, handler_log >>
    /\ UNCHANGED unitVars

\* wait_until_guild_available() returns; the history request goes out
crawl_guild_ready ==
    /\ crawl_pc = "wait_guild"
    /\ guild_available
    /\ crawl_pc' = "fetching"
    /\ UNCHANGED << plat, guild_available, event_lock, crawl_history, crawl_message,
                    crawl_existing, crawl_i, handler, inflight, fetched, examined,
                    crawl_starts, crawl_log, handler_log >>
    /\ UNCHANGED unitVars

\* the history response arrives
crawl_history_fetched ==
    /\ crawl_pc = "fetching"
    /\ LET h == history(plat, Len(plat), limit)
       IN  /\ crawl_history' = h
           /\ fetched' = h
    /\ crawl_pc' = "iterating"
    /\ UNCHANGED << plat, guild_available, event_lock, crawl_message, crawl_existing,
                    crawl_i, handler, inflight, examined, crawl_starts, crawl_log,
                    handler_log >>
    /\ UNCHANGED unitVars

\* the history request fails: the exception ends the task
crawl_history_failed ==
    /\ crawl_pc = "fetching"
    /\ crawl_pc' = "failed"
    /\ UNCHANGED << plat, guild_available, event_lock, crawl_history, crawl_message,
                    crawl_existing, crawl_i, handler, inflight, fetched, examined,
                    crawl_starts, crawl_log, handler_log >>
    /\ UNCHANGED unitVars

\* one turn of the async-for: a skip, or add_signals up to its first
\* await; were nothing missing, add_signals would return at once and the
\* crawl would go to sleep
crawl_examine ==
    /\ crawl_pc = "iterating"
    /\ crawl_history # << >>
    /\ LET message == Head(crawl_history)
           id      == message.id
       IN  /\ crawl_history' = Tail(crawl_history)
           /\ examined' = Append(examined, id)
           /\ IF crawl_skips(message)
              THEN UNCHANGED << crawl_pc, crawl_message, crawl_existing, crawl_i,
                                inflight, crawl_log >>
              ELSE LET existing_reacts == own_reactions(message)
                       k == add_signals_next(existing_reacts, 0)
                   IN  /\ crawl_message' = id
                       /\ crawl_existing' = existing_reacts
                       /\ crawl_i' = k
                       /\ inflight' = IF k # 0
                                      THEN inflight \cup {Request("crawl", id, k)}
                                      ELSE inflight
                       /\ crawl_log' = [crawl_log EXCEPT
                                          ![id].calls = @ + 1,
                                          ![id].existing = existing_reacts,
                                          ![id].issued = IF k # 0 THEN Append(@, Signal[k])
                                                         ELSE @]
                       /\ crawl_pc' = IF k # 0 THEN "adding" ELSE "sleeping"
    /\ UNCHANGED << plat, guild_available, event_lock, handler, fetched,
                    crawl_starts, handler_log >>
    /\ UNCHANGED unitVars

\* the crawl's add-reaction request is answered: the platform has the
\* reaction; add_signals goes on to its next await, or returns and the
\* crawl goes to sleep
crawl_reaction_added ==
    /\ crawl_pc = "adding"
    /\ LET id == crawl_message
           k  == add_signals_next(crawl_existing, crawl_i)
       IN  /\ plat' = add_reaction(plat, id, Signal[crawl_i])
           /\ IF k # 0
              THEN /\ inflight' = (inflight \ {Request("crawl", id, crawl_i)})
                                    \cup {Request("crawl", id, k)}
                   /\ crawl_i' = k
                   /\ crawl_log' = [crawl_log EXCEPT ![id].issued = Append(@, Signal[k])]
                   /\ UNCHANGED crawl_pc
              ELSE /\ inflight' = inflight \ {Request("crawl", id, crawl_i)}
                   /\ crawl_pc' = "sleeping"
                   /\ UNCHANGED << crawl_i, crawl_log >>
    /\ UNCHANGED << guild_available, event_lock, crawl_history, crawl_message,
                    crawl_existing, handler, fetched, examined, crawl_starts,
                    handler_log >>
    /\ UNCHANGED unitVars

\* seeded fault: add_signals catches the exception and goes on with the
\* next signal
crawl_reaction_failed_swallowed ==
    /\ crawl_pc = "adding"
    /\ LET id == crawl_message
           k  == add_signals_next(crawl_existing, crawl_i)
       IN  /\ inflight' = (inflight \ {Request("crawl", id, crawl_i)})
                            \cup (IF k # 0 THEN {Request("crawl", id, k)} ELSE {})
           /\ crawl_i' = IF k # 0 THEN k ELSE crawl_i
           /\ crawl_log' = [crawl_log EXCEPT
                              ![id].failed = Append(@, Signal[crawl_i]),
                              ![id].issued = IF k # 0 THEN Append(@, Signal[k]) ELSE @]
           /\ crawl_pc' = IF k # 0 THEN "adding" ELSE "sleeping"
    /\ UNCHANGED << plat, guild_available, event_lock, crawl_history, crawl_message,
                    crawl_existing, handler, fetched, examined, crawl_starts,
                    handler_log >>
    /\ UNCHANGED unitVars

\* seeded fault: the loop catches the exception and goes on with the next
\* message
crawl_reaction_failed_next_message ==
    /\ crawl_pc = "adding"
    /\ inflight' = inflight \ {Request("crawl", crawl_message, crawl_i)}
    /\ crawl_log' = [crawl_log EXCEPT ![crawl_message].failed = Append(@, Signal[crawl_i])]
    /\ crawl_pc' = "iterating"
    /\ UNCHANGED << plat, guild_available, event_lock, crawl_history, crawl_message,
                    crawl_existing, crawl_i, handler, fetched, examined, crawl_starts,
                    handler_log >>
    /\ UNCHANGED unitVars

\* the crawl's add-reaction request fails: nothing catches the exception,
\* neither in add_signals nor in crawl_incidents, and the task ends with it
crawl_reaction_failed ==
    /\ crawl_pc = "adding"
    /\ inflight' = inflight \ {Request("crawl", crawl_message, crawl_i)}
    /\ crawl_log' = [crawl_log EXCEPT ![crawl_message].failed = Append(@, Signal[crawl_i])]
    /\ crawl_pc' = "failed"
    /\ UNCHANGED << plat, guild_available, event_lock, crawl_history, crawl_message,
                    crawl_existing, crawl_i, handler, fetched, examined, crawl_starts,
                    handler_log >>
    /\ UNCHANGED unitVars

\* asyncio.sleep(sleep) is over
crawl_wake ==
    /\ crawl_pc = "sleeping"
    /\ crawl_log' = [crawl_log EXCEPT ![crawl_message].delay = @ + sleep]
    /\ crawl_message' = 0
    /\ crawl_existing' = {}
    /\ crawl_i' = 0
    /\ crawl_pc' = "iterating"
    /\ UNCHANGED << plat, guild_available, event_lock, crawl_history, handler,
                    inflight, fetched, examined, crawl_starts, handler_log >>
    /\ UNCHANGED unitVars

\* seeded fault: the task is scheduled again when it ends
crawl_finish_reschedules ==
    /\ crawl_pc = "iterating"
    /\ crawl_history = << >>
    /\ crawl_pc' = "scheduled"
    /\ UNCHANGED << plat, guild_available, event_lock, crawl_history, crawl_message,
                    crawl_existing, crawl_i, handler, inflight, fetched, examined,
                    crawl_starts, crawl_log, handler_log >>
    /\ UNCHANGED unitVars

\* the stream is exhausted: "Crawl task finished!"
crawl_finish ==
    /\ crawl_pc = "iterating"
    /\ crawl_history = << >>
    /\ crawl_pc' = "done"
    /\ UNCHANGED << plat, guild_available, event_lock, crawl_history, crawl_message,
                    crawl_existing, crawl_i, handler, inflight, fetched, examined,
                    crawl_starts, crawl_log, handler_log >>
    /\ UNCHANGED unitVars

(***************************************************************************)
(* Incidents.on_message, one invocation per new-message event.             *)
(***************************************************************************)
\* the listener runs up to its first await, or to its end
on_message(m) ==
    /\ handler[m].pc = "dispatched"
    /\ LET message == handler[m].message
       IN  IF on_message_passes(message)
           THEN LET existing_reacts == own_reactions(message)
                    k == add_signals_next(existing_reacts, 0)
                IN  /\ handler' = [handler EXCEPT
                                     ![m].existing = existing_reacts,
                                     ![m].i = k,
                                     ![m].pc = IF k # 0 THEN "adding" ELSE "done"]
                    /\ inflight' = IF k # 0
                                   THEN inflight \cup {Request("on_message", m, k)}
                                   ELSE inflight
                    /\ handler_log' = [handler_log EXCEPT
                                         ![m].calls = @ + 1,
                                         ![m].issued = IF k # 0 THEN Append(@, Signal[k])
                                                       ELSE @]
           ELSE /\ handler' = [handler EXCEPT ![m].pc = "done"]
                /\ UNCHANGED << inflight, handler_log >>
    /\ UNCHANGED << plat, guild_available, event_lock, crawlVars >>
    /\ UNCHANGED unitVars

\* the listener's add-reaction request is answered
on_message_reaction_added(m) ==
    /\ handler[m].pc = "adding"
    /\ LET k == add_signals_next(handler[m].existing, handler[m].i)
       IN  /\ plat' = add_reaction(plat, m, Signal[handler[m].i])
           /\ inflight' = (inflight \ {Request("on_message", m, handler[m].i)})
                            \cup (IF k # 0 THEN {Request("on_message", m, k)} ELSE {})
           /\ handler' = [handler EXCEPT
                            ![m].i = IF k # 0 THEN k ELSE @,
                            ![m].pc = IF k # 0 THEN "adding" ELSE "done"]
           /\ handler_log' = [handler_log EXCEPT
                                ![m].issued = IF k # 0 THEN Append(@, Signal[k]) ELSE @]
    /\ UNCHANGED << guild_available, event_lock, crawlVars >>
    /\ UNCHANGED unitVars

\* the listener's add-reaction request fails: the exception ends the listener
on_message_reaction_failed(m) ==
    /\ handler[m].pc = "adding"
    /\ inflight' = inflight \ {Request("on_message", m, handler[m].i)}
    /\ handler' = [handler EXCEPT ![m].pc = "failed"]
    /\ handler_log' = [handler_log EXCEPT ![m].failed = Append(@, Signal[handler[m].i])]
    /\ UNCHANGED << plat, guild_available, event_lock, crawlVars >>
    /\ UNCHANGED unitVars

(***************************************************************************)
(* Specifications.                                                         *)
(***************************************************************************)
Next ==
    \/ GuildAvailable
    \/ PostMessage
    \/ crawl_begin
    \/ crawl_guild_ready
    \/ crawl_history_fetched
    \/ crawl_history_failed
    \/ crawl_examine
    \/ crawl_reaction_added
    \/ crawl_reaction_failed
    \/ crawl_wake
    \/ crawl_finish
    \/ \E m \in MsgIds : on_message(m)
    \/ \E m \in MsgIds : on_message_reaction_added(m)
    \/ \E m \in MsgIds : on_message_reaction_failed(m)

Spec == Init /\ [][Next]_vars

\* Assuming the guild becomes available, no platform call fails and the
\* scheduler is fair: the asyncio loop runs every ready coroutine, and
\* every request is answered
NextOk ==
    \/ GuildAvailable
    \/ PostMessage
    \/ crawl_begin
    \/ crawl_guild_ready
    \/ crawl_history_fetched
    \/ crawl_examine
    \/ crawl_reaction_added
    \/ crawl_wake
    \/ crawl_finish
    \/ \E m \in MsgIds : on_message(m)
    \/ \E m \in MsgIds : on_message_reaction_added(m)

crawl_step ==
    \/ crawl_begin
    \/ crawl_guild_ready
    \/ crawl_history_fetched
    \/ crawl_examine
    \/ crawl_reaction_added
    \/ crawl_wake
    \/ crawl_finish

on_message_step(m) == on_message(m) \/ on_message_reaction_added(m)

FairSpec ==
    /\ Init
    /\ [][NextOk]_vars
    /\ WF_vars(GuildAvailable)
    /\ WF_vars(crawl_step)
    /\ \A m \in MsgIds : WF_vars(on_message_step(m))

(***************************************************************************)
(* PureSpec: the pure helpers, each evaluated once on a message drawn from *)
(* every combination of what they read.                                    *)
(***************************************************************************)
Contents == { << >>, <<"#">>, <<"#", "o">>, <<"o", "#">>, <<"o">> }

\* message.reactions: at most one discord.Reaction per emoji; me tells
\* whether the bot is among its reactors
ReactionLists ==
    { {[emoji |-> e, me |-> (f[e] = "me")] : e \in {x \in Emoji : f[x] # "absent"}}
      : f \in [Emoji -> {"absent", "others", "me"}] }

PureInit ==
    /\ \E ch \in {Channels_incidents, OtherChannel}, ab \in BOOLEAN,
          c \in Contents, pin \in BOOLEAN, rs \in ReactionLists :
         p_message = [id |-> 1, channel |-> ch, author_bot |-> ab, content |-> c,
                      pinned |-> pin, reactions |-> rs]
    /\ p_pc = "input"
    /\ p_is_incident = FALSE
    /\ p_own_reactions = {}
    /\ p_has_signals = FALSE
    /\ plat = << >>
    /\ CogInit
    /\ TwiceOff
    /\ ResolveOff

Evaluate ==
    /\ p_pc = "input"
    /\ p_is_incident' = is_incident(p_message)
    /\ p_own_reactions' = own_reactions(p_message)
    /\ p_has_signals' = has_signals(p_message)
    /\ p_pc' = "done"
    /\ UNCHANGED << p_message, cogVars, twiceVars, resolveVars >>

PureSpec == PureInit /\ [][Evaluate]_vars

(***************************************************************************)
(* TwiceSpec: add_signals awaited twice in a row on one message object.    *)
(* add_signals reads message.reactions and never writes it: the list       *)
(* changes only when the host runtime applies the gateway's reaction       *)
(* event to the object, which may happen at any time after the platform    *)
(* has the reaction, or never (an object the runtime does not track).      *)
(***************************************************************************)
TwiceInit ==
    /\ \E rs \in ReactionLists :
         t_message = [id |-> 1, channel |-> Report.channel,
                      author_bot |-> Report.author_bot, content |-> Report.content,
                      pinned |-> Report.pinned, reactions |-> rs]
    /\ t_bot = own_reactions(t_message)
    /\ t_pc = "ready"
    /\ t_call = 0
    /\ t_existing = {}
    /\ t_i = 0
    /\ t_issued = << << >>, << >> >>
    /\ t_seen = << {}, {} >>
    /\ plat = << >>
    /\ CogInit
    /\ PureOff
    /\ ResolveOff

\* the caller enters add_signals, which runs up to its first await or, with
\* nothing to add, returns at once
twice_call ==
    /\ t_pc = "ready"
    /\ t_call < 2
    /\ LET existing_reacts == own_reactions(t_message)
           k == add_signals_next(existing_reacts, 0)
           c == t_call + 1
       IN  /\ t_call' = c
           /\ t_existing' = existing_reacts
           /\ t_seen' = [t_seen EXCEPT ![c] = existing_reacts]
           /\ t_i' = k
           /\ t_issued' = IF k # 0 THEN [t_issued EXCEPT ![c] = Append(@, Signal[k])]
                          ELSE t_issued
           /\ t_pc' = IF k # 0 THEN "adding"
                      ELSE IF c < 2 THEN "ready" ELSE "returned"
    /\ UNCHANGED << t_message, t_bot, cogVars, pureVars, resolveVars >>

\* the running call's request is answered: the platform has the reaction
twice_reaction_added ==
    /\ t_pc = "adding"
    /\ LET k == add_signals_next(t_existing, t_i)
       IN  /\ t_bot' = t_bot \cup {Signal[t_i]}
           /\ t_i' = IF k # 0 THEN k ELSE t_i
           /\ t_issued' = IF k # 0 THEN [t_issued EXCEPT ![t_call] = Append(@, Signal[k])]
                          ELSE t_issued
           /\ t_pc' = IF k # 0 THEN "adding"
                      ELSE IF t_call < 2 THEN "ready" ELSE "returned"
    /\ UNCHANGED << t_message, t_call, t_existing, t_seen, cogVars, pureVars, resolveVars >>

\* the running call's request fails: the exception leaves add_signals
twice_reaction_failed ==
    /\ t_pc = "adding"
    /\ t_pc' = "failed"
    /\ UNCHANGED << t_message, t_bot, t_call, t_existing, t_i, t_issued, t_seen,
                    cogVars, pureVars, resolveVars >>

\* the host runtime applies a reaction event of the bot's to the object
gateway_reaction_add ==
    /\ t_pc # "off"
    /\ \E e \in t_bot \ own_reactions(t_message) :
         t_message' = [t_message EXCEPT !.reactions =
                         (@ \ {[emoji |-> e, me |-> FALSE]})
                           \cup {[emoji |-> e, me |-> TRUE]}]
    /\ UNCHANGED << t_bot, t_pc, t_call, t_existing, t_i, t_issued, t_seen,
                    cogVars, pureVars, resolveVars >>

TwiceNext ==
    \/ twice_call
    \/ twice_reaction_added
    \/ twice_reaction_failed
    \/ gateway_reaction_add

TwiceSpec == TwiceInit /\ [][TwiceNext]_vars

(***************************************************************************)
(* ResolveSpec: one call of Incidents.resolve_message, for any id and any  *)
(* cache, beside the crawl task.  The cache may hold a message the channel *)
(* no longer has, and may lack one it has.                                 *)
(***************************************************************************)
ResolveInit ==
    /\ \E n \in 0..MaxOld : plat \in [1..n -> OldMessages]
    /\ CogInit
    /\ TwiceOff
    /\ PureOff
    /\ r_pc = "idle"
    /\ r_id \in MsgIds
    /\ r_cache \in { {} } \cup { {c} : c \in MsgIds }
    /\ r_result = None
    /\ r_log = NoResolveLog

\* channel.fetch_message(id) finds the message
InChannel(p, id) == id \in 1..Len(p) /\ p[id].channel = Channels_incidents

\* the call begins: up to "await self.bot.wait_until_guild_available()"
resolve_call ==
    /\ r_pc = "idle"
    /\ r_pc' = "wait_guild"
    /\ UNCHANGED << r_id, r_cache, r_result, r_log, cogVars, twiceVars, pureVars >>

\* seeded fault: the cache is not consulted, the message is always fetched
resolve_lookup_always_fetches ==
    /\ r_pc = "wait_guild"
    /\ guild_available
    /\ r_log' = [r_log EXCEPT !.fetches = @ + 1]
    /\ r_pc' = "fetching"
    /\ UNCHANGED << r_id, r_cache, r_result, cogVars, twiceVars, pureVars >>

\* the guild is available: _get_message(message_id) looks into the cache;
\* a hit is returned, a miss sends the fetch
resolve_lookup ==
    /\ r_pc = "wait_guild"
    /\ guild_available
    /\ IF r_id \in r_cache
       THEN /\ r_log' = [r_log EXCEPT !.lookups = @ + 1]
            /\ r_result' = Some(r_id)
            /\ r_pc' = "returned"
       ELSE /\ r_log' = [r_log EXCEPT !.lookups = @ + 1, !.fetches = @ + 1]
            /\ r_pc' = "fetching"
            /\ UNCHANGED r_result
    /\ UNCHANGED << r_id, r_cache, cogVars, twiceVars, pureVars >>

\* the fetch is answered with the message
resolve_fetched ==
    /\ r_pc = "fetching"
    /\ InChannel(plat, r_id)
    /\ r_log' = [r_log EXCEPT !.outcome = "fetched"]
    /\ r_result' = Some(r_id)
    /\ r_pc' = "returned"
    /\ UNCHANGED << r_id, r_cache, cogVars, twiceVars, pureVars >>

\* what fetch_message can raise: NotFound when the channel has no such
\* message, and any other error at any time
FetchErrors(p, id) ==
    {"error"} \cup (IF InChannel(p, id) THEN {} ELSE {"not_found"})

\* seeded fault: "except discord.NotFound" where the source has
\* "except Exception"
resolve_fetch_failed_not_found_only ==
    /\ r_pc = "fetching"
    /\ \E e \in FetchErrors(plat, r_id) :
         /\ r_log' = [r_log EXCEPT !.outcome = e]
         /\ r_pc' = IF e = "not_found" THEN "returned" ELSE "raised"
    /\ r_result' = None
    /\ UNCHANGED << r_id, r_cache, cogVars, twiceVars, pureVars >>

\* the fetch raises: "except Exception" catches it and None is returned
resolve_fetch_failed ==
    /\ r_pc = "fetching"
    /\ \E e \in FetchErrors(plat, r_id) :
         r_log' = [r_log EXCEPT !.outcome = e]
    /\ r_result' = None
    /\ r_pc' = "returned"
    /\ UNCHANGED << r_id, r_cache, cogVars, twiceVars, pureVars >>

ResolveNext ==
    \/ GuildAvailable
    \/ crawl_begin
    \/ crawl_guild_ready
    \/ crawl_history_fetched
    \/ crawl_history_failed
    \/ crawl_examine
    \/ crawl_reaction_added
    \/ crawl_reaction_failed
    \/ crawl_wake
    \/ crawl_finish
    \/ resolve_call
    \/ resolve_lookup
    \/ resolve_fetched
    \/ resolve_fetch_failed

ResolveSpec == ResolveInit /\ [][ResolveNext]_vars

(***************************************************************************)
(* Properties.                                                             *)
(***************************************************************************)
\* the Signal emoji that are not in a set of emoji, in enumeration order
Missing(emoji) ==
    LET absent(e) == e \notin emoji
    IN  SelectSeq(Signal, absent)

IsPrefix(s, t) == Len(s) <= Len(t) /\ \A k \in 1..Len(s) : s[k] = t[k]

Carries(m) == m <= Len(plat) /\ ALLOWED_EMOJI \subseteq plat[m].bot

InCrawledHistory(m) ==
    \E k \in 1..Len(fetched) : fetched[k].id = m /\ is_incident(fetched[k])

DeliveredIncident(m) ==
    handler[m].pc # "none" /\ is_incident(handler[m].message)

\* C1: with the guild available in the end, no failing call and a fair
\* scheduler, every incident among the `limit` most recent messages of the
\* history response, and every incident delivered to on_message, comes to
\* carry all three Signal reactions of the bot.
C1_SignalsEventually ==
    \A m \in MsgIds : (InCrawledHistory(m) \/ DeliveredIncident(m)) ~> Carries(m)

C1_Witness ==
    /\ crawl_pc = "done"
    /\ \E m \in MsgIds : crawl_log[m].calls = 1 /\ Carries(m)
    /\ \E m \in MsgIds : handler[m].pc = "done" /\ handler_log[m].calls = 1 /\ Carries(m)

\* C2: on_message calls add_signals once for an event whose message is an
\* incident, and for any other event neither calls it nor issues a request.
C2_OnMessageFilters ==
    \A m \in MsgIds :
      LET h == handler[m]
          L == handler_log[m]
      IN  /\ h.pc \in {"none", "dispatched"} => L = NoHandlerLog
          /\ h.pc \in {"adding", "done", "failed"} =>
                L.calls = IF is_incident(h.message) THEN 1 ELSE 0
          /\ ~ is_incident(h.message) =>
                /\ L.issued = << >>
                /\ \A r \in inflight : ~ (r.by = "on_message" /\ r.msg = m)

C2_Witness ==
    \E m \in MsgIds :
      /\ handler[m].pc = "done"
      /\ is_incident(handler[m].message)
      /\ handler_log[m].calls = 1
      /\ Len(handler_log[m].issued) = Len(Signal)

\* what the crawl is to process: an incident that lacks a signal
Processed(message) == is_incident(message) /\ ~ has_signals(message)

\* C3: the crawl takes the history in the order delivered; it issues
\* requests only for an incident that lacks a signal; such a message gets
\* one add_signals call, and the delay has passed once before the next
\* message is taken; a skipped message gets no call, no request, no delay.
C3_CrawlSkipLogic ==
    /\ Len(examined) <= Len(fetched)
    /\ \A k \in 1..Len(examined) : examined[k] = fetched[k].id
    /\ \A m \in MsgIds :
         (\A k \in 1..Len(fetched) : fetched[k].id # m) => crawl_log[m] = NoCrawlLog
    /\ \A k \in 1..Len(fetched) :
         LET message == fetched[k]
             L == crawl_log[message.id]
         IN  /\ L.calls <= 1
             /\ L.delay \in {0, sleep}
             /\ k > Len(examined) => L = NoCrawlLog
             /\ k <= Len(examined) /\ Processed(message) =>
                   L.calls = 1 /\ L.issued # << >>
             /\ k <= Len(examined) /\ ~ Processed(message) => L = NoCrawlLog
             /\ (k < Len(examined) \/ crawl_pc = "done") /\ Processed(message) =>
                   L.delay = sleep

C3_Witness ==
    /\ crawl_pc = "done"
    /\ \E k \in 1..Len(fetched) :
         Processed(fetched[k]) /\ crawl_log[fetched[k].id].delay = sleep
    /\ \E k \in 1..Len(fetched) :
         is_incident(fetched[k]) /\ has_signals(fetched[k])
           /\ crawl_log[fetched[k].id] = NoCrawlLog

\* the requests one add_signals call has issued so far: they follow the
\* enumeration order over the signals missing as the call began, all but
\* the last have been answered, and only the last can be outstanding
InOrder(by, m, existing, issued, finished) ==
    LET mine == {r \in inflight : r.by = by /\ r.msg = m}
    IN  /\ IsPrefix(issued, Missing(existing))
        /\ finished => issued = Missing(existing) /\ mine = {}
        /\ \A k \in 1..(Len(issued) - 1) : issued[k] \in plat[m].bot
        /\ Cardinality(mine) <= 1
        /\ \A r \in mine : issued # << >> /\ r.emoji = issued[Len(issued)]

\* C4: one add_signals call issues its requests in the order ACTIONED,
\* NOT_ACTIONED, INVESTIGATING, leaving out the signals present as it
\* began, and issues none before the one before it was answered.
C4_AddSignalsOrder ==
    \A m \in MsgIds :
      /\ InOrder("crawl", m, crawl_log[m].existing, crawl_log[m].issued,
                 crawl_log[m].delay = sleep \/ (crawl_pc = "sleeping" /\ crawl_message = m))
      /\ InOrder("on_message", m, handler[m].existing, handler_log[m].issued,
                 handler[m].pc = "done" /\ handler_log[m].calls = 1)

C4_Witness ==
    /\ \E m \in MsgIds :
         /\ handler[m].pc = "done"
         /\ handler[m].existing = {}
         /\ handler_log[m].issued = Signal
    /\ \E m \in MsgIds :
         /\ crawl_log[m].existing = {Signal[1]}
         /\ crawl_log[m].issued = << Signal[2], Signal[3] >>

\* whether call c of the two has returned
Returned(c) == t_call > c \/ (t_call = c /\ t_pc \in {"ready", "returned"})

\* C5, as stated: of two add_signals calls in a row on one message, the
\* second issues no request.
C5_SecondCallSilent == t_call = 2 => t_issued[2] = << >>

\* C5, amended: each of the two calls issues one request per signal that
\* is not among the bot's own reactions in the message object's list as the
\* call begins, and none for one that is; so the second call issues no
\* request when the list by then shows all three signals as the bot's, and
\* repeats the requests for those it does not show.
C5_CallsFollowTheList ==
    \A c \in 1..2 :
      /\ c <= t_call => IsPrefix(t_issued[c], Missing(t_seen[c]))
      /\ c > t_call => t_issued[c] = << >>
      /\ Returned(c) /\ c >= 1 =>
            /\ t_issued[c] = Missing(t_seen[c])
            /\ \A e \in t_seen[c] : \A k \in 1..Len(t_issued[c]) : t_issued[c][k] # e
            /\ (c = 2 /\ ALLOWED_EMOJI \subseteq t_seen[2]) => t_issued[2] = << >>
            /\ (c = 2 /\ ~ (ALLOWED_EMOJI \subseteq t_seen[2])) => t_issued[2] # << >>

C5_Witness ==
    /\ t_pc = "returned"
    /\ Len(t_issued[1]) = 2
    /\ t_issued[2] = << >>

\* C6: while the crawl task is scheduled and has not ended, no request of
\* an on_message invocation is outstanding.
C6_ListenersAwaitCrawl ==
    crawl_pc \notin {"done", "failed"} => \A r \in inflight : r.by # "on_message"

\* C7: no message has two add-reaction requests outstanding at once.
C7_OneRequestPerMessage ==
    \A m \in MsgIds : Cardinality({r \in inflight : r.msg = m}) <= 1

\* C8: is_incident is true exactly when the message is in the incidents
\* channel, its author is no bot, its content does not begin with '#', and
\* it is not pinned.
C8_IsIncident ==
    p_pc = "done" =>
      (p_is_incident <=>
         /\ p_message.channel = Channels_incidents
         /\ p_message.author_bot = FALSE
         /\ (p_message.content = << >> \/ Head(p_message.content) # "#")
         /\ p_message.pinned = FALSE)

C8_Witness ==
    /\ p_pc = "done"
    /\ p_message.channel = Channels_incidents
    /\ ~ p_message.author_bot
    /\ p_message.content = <<"o", "#">>
    /\ p_message.pinned
    /\ ~ p_is_incident

\* C9: has_signals is true exactly when, for each of the three Signal
\* emoji, the message has a reaction with that emoji that the bot is a
\* reactor of.
C9_HasSignals ==
    p_pc = "done" =>
      (p_has_signals <=>
         \A k \in 1..Len(Signal) :
           \E r \in p_message.reactions : r.emoji = Signal[k] /\ r.me = TRUE)

C9_Witness ==
    /\ p_pc = "done"
    /\ p_message.reactions = { [emoji |-> Signal[1], me |-> TRUE],
                               [emoji |-> Signal[2], me |-> FALSE],
                               [emoji |-> Signal[3], me |-> TRUE],
                               [emoji |-> OtherEmoji, me |-> TRUE] }
    /\ ~ p_has_signals

\* C10: crawl_incidents begins at most once, whatever new-message events
\* arrive, and a finished crawl stays finished.
C10_CrawlOnce ==
    /\ [](crawl_starts <= 1 /\ (crawl_pc # "scheduled" => crawl_starts = 1))
    /\ [][crawl_pc = "done" => crawl_pc' = "done"]_vars

\* a message that the history response did not hold was handled by
\* on_message, and the crawl is over
C10_Witness ==
    /\ crawl_pc = "done"
    /\ crawl_starts = 1
    /\ \E m \in MsgIds :
         /\ handler[m].pc = "done"
         /\ handler_log[m].calls = 1
         /\ \A k \in 1..Len(fetched) : fetched[k].id # m

\* what C11 asks of one add_signals call whose request failed: the caller
\* ended with the error, the failed request was the call's last, it was
\* issued once, and nothing of the call is outstanding
FailureEnds(by, m, L, ended) ==
    L.failed # << >> =>
      /\ ended
      /\ Len(L.failed) = 1
      /\ L.issued # << >>
      /\ L.issued[Len(L.issued)] = L.failed[1]
      /\ Cardinality({k \in 1..Len(L.issued) : L.issued[k] = L.failed[1]}) = 1
      /\ \A r \in inflight : ~ (r.by = by /\ r.msg = m)

\* C11: a failed add-reaction request is neither caught nor retried: the
\* call issues no further request, not for the remaining signals and not
\* again for the failed one, and its caller (the crawl task, the listener)
\* ends with the error.
C11_FailurePropagates ==
    \A m \in MsgIds :
      /\ FailureEnds("crawl", m, crawl_log[m], crawl_pc = "failed")
      /\ FailureEnds("on_message", m, handler_log[m], handler[m].pc = "failed")

\* the first of three requests failed, in the crawl and in a listener
C11_Witness ==
    /\ \E m \in MsgIds :
         /\ crawl_log[m].existing = {}
         /\ crawl_log[m].failed = << Signal[1] >>
         /\ crawl_log[m].issued = << Signal[1] >>
    /\ \E m \in MsgIds :
         /\ handler_log[m].failed = << Signal[2] >>
         /\ handler_log[m].issued = << Signal[1], Signal[2] >>

\* C12: resolve_message never lets a fetch failure out: after a cache miss
\* and a fetch that failed, for not-found or any other reason, the call
\* has returned None; after a fetch that succeeded it has returned the
\* fetched message.
C12_FetchFailureIsNone ==
    /\ r_pc # "raised"
    /\ r_log.outcome # "none" => r_pc = "returned" /\ r_id \notin r_cache
    /\ r_log.outcome \in {"not_found", "error"} => r_result = None
    /\ r_log.outcome = "fetched" => r_result = Some(r_id)

\* the channel has the message, the fetch failed all the same
C12_Witness ==
    /\ r_pc = "returned"
    /\ r_log.outcome = "error"
    /\ InChannel(plat, r_id)
    /\ r_result = None

\* C13: with the id in the cache the call returns the cached message and
\* fetches nothing; a fetch follows a cache miss only, once per call.
C13_CacheFirst ==
    /\ r_log.lookups <= 1
    /\ r_log.fetches <= 1
    /\ r_log.fetches = 1 => r_log.lookups = 1 /\ r_id \notin r_cache
    /\ r_pc = "fetching" => r_log.fetches = 1
    /\ (r_pc = "returned" /\ r_id \in r_cache) =>
          /\ r_result = Some(r_id)
          /\ r_log.fetches = 0
          /\ r_log.outcome = "none"

\* a cached message that the channel no longer has is returned
C13_Witness ==
    /\ r_pc = "returned"
    /\ r_id \in r_cache
    /\ ~ InChannel(plat, r_id)
    /\ r_result = Some(r_id)

\* C14: until the guild is reported available the crawl has asked for no
\* history and issued no request, and resolve_message has looked into no
\* cache and fetched nothing; both stay suspended at the wait, neither
\* ended nor failed, for as long as the guild is not available.
C14_WaitsForGuild ==
    ~ guild_available =>
      /\ crawl_pc \in {"scheduled", "wait_guild"}
      /\ fetched = << >>
      /\ examined = << >>
      /\ inflight = {}
      /\ \A m \in MsgIds : crawl_log[m] = NoCrawlLog
      /\ r_pc \in {"idle", "wait_guild"}
      /\ r_log = NoResolveLog
      /\ r_result = None

C14_Witness ==
    /\ ~ guild_available
    /\ crawl_pc = "wait_guild"
    /\ r_pc = "wait_guild"
    /\ plat # << >>

\* C15: no add-reaction request is issued for a message and an emoji that
\* the bot's reaction is already on as the request goes out.
C15_NoRedundantRequest ==
    [][\A r \in inflight' \ inflight : r.emoji \notin plat'[r.msg].bot]_vars

\* the ids of a sequence of message objects
Ids(messages) == [k \in 1..Len(messages) |-> messages[k].id]

\* C16: with the guild available in the end, no failing call and a fair
\* scheduler the crawl task finishes; what it has examined by then is the
\* history response: at most `limit` messages, all of the incidents
\* channel, from the newest down, each once.
C16_CrawlFinishes ==
    /\ <>(crawl_pc = "done")
    /\ [](/\ Len(fetched) <= limit
          /\ \A k \in 1..Len(fetched) : InChannel(plat, fetched[k].id)
          /\ \A j, k \in 1..Len(fetched) : j < k => fetched[j].id > fetched[k].id
          /\ IsPrefix(examined, Ids(fetched))
          /\ crawl_pc = "done" => examined = Ids(fetched))

\* the channel held more than `limit` messages, and the crawl is over
C16_Witness ==
    /\ crawl_pc = "done"
    /\ Len(examined) = limit
    /\ Cardinality({m \in 1..Len(plat) : InChannel(plat, m)}) > limit
    /\ examined[1] = Len(plat)

\* C17: all the cog does to the platform is add reactions: a step changes
\* a message only in adding one Signal emoji to the bot's reactions on it,
\* the emoji of a request that was outstanding for that message; every
\* outstanding request is for a Signal emoji and an incident; no message
\* goes away.
C17_OnlyAddsSignals ==
    [][/\ Len(plat') >= Len(plat)
       /\ \A m \in 1..Len(plat) :
            /\ [plat'[m] EXCEPT !.bot = {}] = [plat[m] EXCEPT !.bot = {}]
            /\ plat[m].bot \subseteq plat'[m].bot
            /\ \A e \in plat'[m].bot \ plat[m].bot :
                 /\ e \in ALLOWED_EMOJI
                 /\ \E r \in inflight : r.msg = m /\ r.emoji = e
            /\ Cardinality(plat'[m].bot \ plat[m].bot) <= 1
       /\ \A r \in inflight' :
            /\ r.emoji \in ALLOWED_EMOJI
            /\ is_incident(MessageObject(r.msg, plat'[r.msg]))]_vars

\* the crawl added the one signal that was missing; what else was on the
\* message is as it was
C17_Witness ==
    \E m \in MsgIds :
      /\ crawl_log[m].issued = << Signal[2] >>
      /\ crawl_log[m].delay = sleep
      /\ plat[m].bot = ALLOWED_EMOJI
      /\ plat[m].users = {Signal[2]}

\* whether a request of the crawl has failed
CrawlRequestFailed == \E m \in MsgIds : crawl_log[m].failed # << >>

\* C18: a failed add-reaction request ends the crawl task as a whole: the
\* task has failed, the message of the failed request is the last one
\* examined, the rest of the history is untouched, and from then on the
\* crawl examines nothing and issues nothing.
C18_FailureEndsCrawl ==
    /\ [](CrawlRequestFailed =>
            /\ crawl_pc = "failed"
            /\ examined # << >>
            /\ crawl_log[examined[Len(examined)]].failed # << >>
            /\ \A k \in 1..Len(crawl_history) :
                 crawl_log[crawl_history[k].id] = NoCrawlLog
            /\ \A r \in inflight : r.by # "crawl")
    /\ [][crawl_pc = "failed" =>
            /\ crawl_pc' = "failed"
            /\ examined' = examined
            /\ crawl_history' = crawl_history
            /\ crawl_log' = crawl_log
            /\ \A r \in inflight' : r.by # "crawl"]_vars

\* the request for the first message failed; the next message of the
\* history is an incident without signals, and stays so
C18_Witness ==
    /\ crawl_pc = "failed"
    /\ CrawlRequestFailed
    /\ crawl_history # << >>
    /\ Processed(crawl_history[1])
    /\ plat[crawl_history[1].id].bot = {}

====
